---- MODULE Spec2Model ----
(***************************************************************************)
(* Propensity-score matching with replacement (strike): nearest-neighbour  *)
(* matching (distance.rs), the ATT and its Abadie-Imbens variance (att.rs),*)
(* id assignment (propensity.rs) and the pipeline `matches` (main.rs).     *)
(*                                                                         *)
(* A DataFrame is a sequence of rows; a row is a record with the columns   *)
(* strike_id, treat, y (the outcome column), propensities and, inside the  *)
(* variance estimator, strike_id_count and conditional_variance.           *)
(* Propensities and outcomes are f64 in the program; here they lie on an   *)
(* integer grid, so that differences, minima and equality tests are the    *)
(* exact ones.  Quotients are kept as numerator/denominator pairs.         *)
(***************************************************************************)
EXTENDS Integers, Sequences, FiniteSets

VARIABLES pc, data, strike, main, target, idx, targets, att, att_variance, err

vars == <<pc, data, strike, main, target, idx, targets, att, att_variance, err>>

(* ------------------------------ bounds -------------------------------- *)
\* rows of the input frame of the pipeline
MaxN == 4
\* rows of `main` and of `target` when nn_match is driven on its own
MaxMain == 2
MaxTarget == 2
\* treated rows and control rows when the estimators are driven on their own
MaxTreat == 3
MaxPool == 2

\* value grids
PipeScores == 0..1
PipeOutcomes == 0..1
Ids == 1..2
Scores == 0..2
EstScores == 0..1
EstOutcomes == 0..1

(* ------------------------------ helpers ------------------------------- *)
Abs(x) == IF x < 0 THEN -x ELSE x

Range(s) == {s[k] : k \in 1..Len(s)}

\* Option<f64>: None, or Some(num / den)
None == [some |-> FALSE, num |-> 0, den |-> 1]

Some(n, d) == [some |-> TRUE, num |-> n, den |-> d]

\* DataFrame::filter(mask): the rows whose mask entry is true, in order
RECURSIVE FilterMask(_, _)
FilterMask(rows, mask) ==
    IF Len(rows) = 0 THEN <<>>
    ELSE IF mask[1] THEN <<rows[1]>> \o FilterMask(Tail(rows), Tail(mask))
         ELSE FilterMask(Tail(rows), Tail(mask))

\* DataFrame::head(Some(1))
Head1(rows) == IF Len(rows) = 0 THEN <<>> ELSE <<rows[1]>>

\* Series::min over a non-empty column
RECURSIVE SeqMin(_)
SeqMin(col) ==
    IF Len(col) = 1 THEN col[1]
    ELSE LET m == SeqMin(Tail(col)) IN IF col[1] <= m THEN col[1] ELSE m

RECURSIVE SeqSum(_)
SeqSum(col) == IF Len(col) = 0 THEN 0 ELSE col[1] + SeqSum(Tail(col))

\* all orderings of a frame's rows
Perms(rows) ==
    LET n == Len(rows)
        Bij == {p \in [1..n -> 1..n] : \A a, b \in 1..n : p[a] = p[b] => a = b}
    IN {[k \in 1..n |-> rows[p[k]]] : p \in Bij}

(* ------------------------------ distance.rs --------------------------- *)
\* what find_nn leaves in the caller's frame: `data` is borrowed immutably
\* and the filtered frame is a new local that shadows it
FindNNFiltersCallerFrame(data_, strike_id) ==
    FilterMask(data_, [k \in 1..Len(data_) |-> data_[k].strike_id # strike_id])

FindNNFrame(data_, strike_id) == data_

FindNNNoSelfExclusion(data_, pscore, strike_id) ==
    LET absd == [k \in 1..Len(data_) |-> Abs(data_[k].propensities - pscore)]
    IN IF Len(data_) = 0 THEN [panic |-> TRUE, rows |-> <<>>]
       ELSE [panic |-> FALSE,
             rows |-> Head1(FilterMask(data_,
                        [k \in 1..Len(data_) |-> absd[k] = SeqMin(absd)]))]

FindNNExcludesByValue(data_, pscore, strike_id) ==
    LET filtered == FilterMask(data_, [k \in 1..Len(data_) |-> data_[k].propensities # pscore])
        absd == [k \in 1..Len(filtered) |-> Abs(filtered[k].propensities - pscore)]
    IN IF Len(filtered) = 0 THEN [panic |-> TRUE, rows |-> <<>>]
       ELSE [panic |-> FALSE,
             rows |-> Head1(FilterMask(filtered,
                        [k \in 1..Len(filtered) |-> absd[k] = SeqMin(absd)]))]

FindNNLastOfTies(data_, pscore, strike_id) ==
    LET filtered == FindNNFiltersCallerFrame(data_, strike_id)
        absd == [k \in 1..Len(filtered) |-> Abs(filtered[k].propensities - pscore)]
        ties == FilterMask(filtered, [k \in 1..Len(filtered) |-> absd[k] = SeqMin(absd)])
    IN IF Len(filtered) = 0 THEN [panic |-> TRUE, rows |-> <<>>]
       ELSE [panic |-> FALSE, rows |-> <<ties[Len(ties)]>>]

FindNNSkipsOnEmpty(data_, pscore, strike_id) ==
    LET filtered == FindNNFiltersCallerFrame(data_, strike_id)
        absd == [k \in 1..Len(filtered) |-> Abs(filtered[k].propensities - pscore)]
    IN IF Len(filtered) = 0 THEN [panic |-> FALSE, rows |-> <<>>]
       ELSE [panic |-> FALSE,
             rows |-> Head1(FilterMask(filtered,
                        [k \in 1..Len(filtered) |-> absd[k] = SeqMin(absd)]))]

\* find_nn: [panic, rows]; rows is the 1-row frame of the nearest neighbour
FindNN(data_, pscore, strike_id) ==
    LET id_mask == [k \in 1..Len(data_) |-> data_[k].strike_id # strike_id]
        filtered == FilterMask(data_, id_mask)
        pscore_diff == [k \in 1..Len(filtered) |-> filtered[k].propensities - pscore]
        absd == [k \in 1..Len(filtered) |-> Abs(pscore_diff[k])]
    IN IF Len(filtered) = 0
       THEN \* min() of an empty column is None
            [panic |-> TRUE, rows |-> <<>>]
       ELSE LET p == SeqMin(absd)
                pscore_mask == [k \in 1..Len(filtered) |-> absd[k] = p]
            IN [panic |-> FALSE, rows |-> Head1(FilterMask(filtered, pscore_mask))]

VStackFront(frame, rows) == rows \o frame

\* targets.vstack(&nearest_neighbor)
VStack(frame, rows) == frame \o rows

\* nn_match as one call: [panic, rows]
RECURSIVE NnMatchFrom(_, _, _, _)
NnMatchFrom(main_, target_, k, acc) ==
    IF k > Len(main_) THEN [panic |-> FALSE, rows |-> acc]
    ELSE LET nn == FindNN(target_, main_[k].propensities, main_[k].strike_id)
         IN IF nn.panic THEN [panic |-> TRUE, rows |-> <<>>]
            ELSE NnMatchFrom(main_, FindNNFrame(target_, main_[k].strike_id),
                             k + 1, VStack(acc, nn.rows))

NnMatch(main_, target_) == NnMatchFrom(main_, target_, 1, <<>>)

(* ------------------------------ att.rs -------------------------------- *)
\* Series - Series: element-wise, a length-1 operand is broadcast, any other
\* length mismatch panics
SeriesSub(a, b) ==
    IF Len(a) = Len(b) THEN [ok |-> TRUE, col |-> [k \in 1..Len(a) |-> a[k] - b[k]]]
    ELSE IF Len(b) = 1 THEN [ok |-> TRUE, col |-> [k \in 1..Len(a) |-> a[k] - b[1]]]
    ELSE IF Len(a) = 1 THEN [ok |-> TRUE, col |-> [k \in 1..Len(b) |-> a[1] - b[k]]]
    ELSE [ok |-> FALSE, col |-> <<>>]

\* column(outcome)
OutcomeColumn(rows) == [k \in 1..Len(rows) |-> rows[k].y]

CalculateAttAbsDiff(treat, control) ==
    IF Len(control) = 0 THEN [status |-> "err", value |-> None]
    ELSE LET d == SeriesSub(OutcomeColumn(treat), OutcomeColumn(control))
         IN IF ~d.ok \/ Len(d.col) = 0 THEN [status |-> "panic", value |-> None]
            ELSE [status |-> "ok",
                  value |-> Some(SeqSum([k \in 1..Len(d.col) |-> Abs(d.col[k])]),
                                 Len(d.col))]

\* calculate_att: [status, value]; the frame nn_match builds from zero rows
\* has no columns, so column(outcome) is an Err
CalculateAtt(treat, control) ==
    IF Len(control) = 0 THEN [status |-> "err", value |-> None]
    ELSE LET observed_y == OutcomeColumn(treat)
             matched_y == OutcomeColumn(control)
             y_diff == SeriesSub(observed_y, matched_y)
         IN IF ~y_diff.ok THEN [status |-> "panic", value |-> None]
            ELSE IF Len(y_diff.col) = 0
                 THEN \* the mean of an empty column is None
                      [status |-> "panic", value |-> None]
                 ELSE [status |-> "ok",
                       value |-> Some(SeqSum(y_diff.col), Len(y_diff.col))]

\* groupby(strike_id).count() and the left join: every row gets the number
\* of rows of the frame that carry its strike_id
LeftJoinCount(rows) ==
    [k \in 1..Len(rows) |->
        [strike_id |-> rows[k].strike_id, treat |-> rows[k].treat,
         y |-> rows[k].y, propensities |-> rows[k].propensities,
         strike_id_count |->
            Cardinality({j \in 1..Len(rows) : rows[j].strike_id = rows[k].strike_id})]]

\* unique(None, First, None): one row per distinct row, the first kept
RECURSIVE UniqueFirst(_)
UniqueFirst(rows) ==
    IF Len(rows) = 0 THEN <<>>
    ELSE LET init == UniqueFirst(SubSeq(rows, 1, Len(rows) - 1))
             last == rows[Len(rows)]
         IN IF last \in Range(init) THEN init ELSE Append(init, last)

\* subsample_count_matches: unique() does not keep the row order, so every
\* ordering of the distinct rows is a possible result
SubsampleCountMatches(rows) == Perms(UniqueFirst(LeftJoinCount(rows)))

\* conditional variance of one row, in quarters:
\* 4 * ((y - mean_y)^2 + (matched_y - mean_y)^2) with mean_y = (y + matched_y) / 2
ConditionalVariance4(observed_y, matched_y) ==
    LET mean_y2 == observed_y + matched_y
    IN (2 * observed_y - mean_y2) * (2 * observed_y - mean_y2)
       + (2 * matched_y - mean_y2) * (2 * matched_y - mean_y2)

\* subsample_conditional_variance after subsample_count_matches returned
\* the frame `counted`
ConditionalVarianceOf(counted) ==
    LET self_matches == NnMatch(counted, counted)
    IN IF self_matches.panic THEN [status |-> "panic", rows |-> <<>>]
       ELSE IF Len(self_matches.rows) = 0 THEN [status |-> "err", rows |-> <<>>]
       ELSE IF ~SeriesSub(OutcomeColumn(counted),
                          OutcomeColumn(self_matches.rows)).ok
            THEN [status |-> "panic", rows |-> <<>>]
       ELSE LET m == self_matches.rows
                my(k) == IF Len(m) = 1 THEN m[1].y ELSE m[k].y
            IN [status |-> "ok",
                rows |-> [k \in 1..Len(counted) |->
                    [strike_id |-> counted[k].strike_id, treat |-> counted[k].treat,
                     y |-> counted[k].y, propensities |-> counted[k].propensities,
                     strike_id_count |-> counted[k].strike_id_count,
                     conditional_variance |->
                        ConditionalVariance4(counted[k].y, my(k))]]]

SubsampleConditionalVariance(rows) ==
    {ConditionalVarianceOf(counted) : counted \in SubsampleCountMatches(rows)}

WeightedTreatUnsquared(r) == r.treat - (((r.treat - 1) * (-1)) * r.strike_id_count)

\* weighted_treat * weighted_treat of one row
WeightedTreat(r) ==
    LET w == r.treat - (((r.treat - 1) * (-1)) * r.strike_id_count)
    IN w * w

TreatByVarUnweighted(treat_control) ==
    SeqSum([k \in 1..Len(treat_control) |-> treat_control[k].conditional_variance])

\* (weighted_treat * conditional_variance).sum(), in quarters
TreatByVar(treat_control) ==
    SeqSum([k \in 1..Len(treat_control) |->
                WeightedTreat(treat_control[k]) * treat_control[k].conditional_variance])

\* calculate_variance: the set of its possible outcomes [status, value]
CalculateVariance(treat, control) ==
    LET n_treat_sq == Len(treat) * Len(treat)
        Outcome(tv, cv) ==
            IF tv.status # "ok" THEN [status |-> tv.status, value |-> None]
            ELSE IF cv.status # "ok" THEN [status |-> cv.status, value |-> None]
            ELSE [status |-> "ok",
                  value |-> Some(TreatByVar(VStack(tv.rows, cv.rows)), 4 * n_treat_sq)]
    IN {Outcome(tv, cv) : tv \in SubsampleConditionalVariance(treat),
                          cv \in SubsampleConditionalVariance(control)}

(* ------------------------------ propensity.rs ------------------------- *)
AssignIdsFromZero(n) == [k \in 1..n |-> k - 1]

\* idx: (1..=data.height()).collect()
AssignIds(n) == [k \in 1..n |-> k]

\* estimate_propensities, given the fitted values the logistic regression
\* returned for the rows: the frame with the two appended columns
EstimatePropensities(data_, propensities) ==
    LET ids == AssignIds(Len(data_))
    IN [k \in 1..Len(data_) |->
          [strike_id |-> ids[k], treat |-> data_[k].treat, y |-> data_[k].y,
           propensities |-> propensities[k]]]

(* ------------------------------ main.rs ------------------------------- *)
\* treat_control_split
TreatControlSplit(strike_) ==
    LET mask_treat == [k \in 1..Len(strike_) |-> strike_[k].treat = 1]
        mask_control == [k \in 1..Len(strike_) |-> strike_[k].treat = 0]
    IN [treat |-> FilterMask(strike_, mask_treat),
        control |-> FilterMask(strike_, mask_control)]

(* ------------------------------ state machine ------------------------- *)
\* pc: the position in `matches`
\*   "start"     before estimate_propensities
\*   "split"     before treat_control_split
\*   "nn_match"  inside the loop of nn_match(main, target); idx is the loop position
\*   "matched"   nn_match returned `targets`; before calculate_att
\*   "att"       before calculate_variance
\*   "done"      Ok((att, att_variance, ..)) returned
\*   "err"       an Err was returned, "panic": a panic!() unwound the call

Rows(n, ids, treats, scores, outcomes) ==
    {r \in [1..n -> [strike_id : ids, treat : treats, y : outcomes, propensities : scores]] :
        TRUE}

\* the input frame of `matches`: binary treatment and the outcome
Init ==
    /\ pc = "start"
    /\ \E n \in 1..MaxN : data \in [1..n -> [treat : {0, 1}, y : PipeOutcomes]]
    /\ strike = <<>>
    /\ main = <<>>
    /\ target = <<>>
    /\ idx = 1
    /\ targets = <<>>
    /\ att = None
    /\ att_variance = None
    /\ err = ""

\* estimate_propensities(&mut strike, treatment)?, the fit succeeding
MatchesEstimatePropensities ==
    /\ pc = "start"
    /\ \E propensities \in [1..Len(data) -> PipeScores] :
          strike' = EstimatePropensities(data, propensities)
    /\ pc' = "split"
    /\ UNCHANGED <<data, main, target, idx, targets, att, att_variance, err>>

\* estimate_propensities(&mut strike, treatment)?, the fit returning an Err
MatchesEstimatePropensitiesErr ==
    /\ pc = "start"
    /\ pc' = "err"
    /\ err' = "estimate_logit"
    /\ UNCHANGED <<data, strike, main, target, idx, targets, att, att_variance>>

\* treat_control_split(&strike, treatment)? and the entry of nn_match
MatchesTreatControlSplit ==
    /\ pc = "split"
    /\ main' = TreatControlSplit(strike).treat
    /\ target' = TreatControlSplit(strike).control
    /\ idx' = 1
    /\ targets' = <<>>
    /\ pc' = "nn_match"
    /\ UNCHANGED <<data, strike, att, att_variance, err>>

\* one iteration of the loop of nn_match
NnMatchStep ==
    /\ pc = "nn_match"
    /\ idx <= Len(main)
    /\ LET nearest_neighbor == FindNN(target, main[idx].propensities, main[idx].strike_id)
       IN IF nearest_neighbor.panic
          THEN /\ pc' = "panic"
               /\ err' = "find_nn: Failed to calculate propensity score distances"
               /\ UNCHANGED <<target, idx, targets>>
          ELSE /\ targets' = VStack(targets, nearest_neighbor.rows)
               /\ target' = FindNNFrame(target, main[idx].strike_id)
               /\ idx' = idx + 1
               /\ UNCHANGED <<pc, err>>
    /\ UNCHANGED <<data, strike, main, att, att_variance>>

\* Ok(targets)
NnMatchReturn ==
    /\ pc = "nn_match"
    /\ idx > Len(main)
    /\ pc' = "matched"
    /\ UNCHANGED <<data, strike, main, target, idx, targets, att, att_variance, err>>

\* calculate_att(&strike_treat, &strike_control, outcome)?
MatchesCalculateAtt ==
    /\ pc = "matched"
    /\ LET r == CalculateAtt(main, targets)
       IN /\ att' = r.value
          /\ pc' = IF r.status = "ok" THEN "att" ELSE r.status
          /\ err' = IF r.status = "ok" THEN err ELSE "calculate_att"
    /\ UNCHANGED <<data, strike, main, target, idx, targets, att_variance>>

\* calculate_variance(&strike_treat, &strike_control, outcome, treatment)?
MatchesCalculateVariance ==
    /\ pc = "att"
    /\ \E r \in CalculateVariance(main, targets) :
          /\ att_variance' = r.value
          /\ pc' = IF r.status = "ok" THEN "done" ELSE r.status
          /\ err' = IF r.status = "ok" THEN err ELSE "calculate_variance"
    /\ UNCHANGED <<data, strike, main, target, idx, targets, att>>

Next ==
    \/ MatchesEstimatePropensities
    \/ MatchesEstimatePropensitiesErr
    \/ MatchesTreatControlSplit
    \/ NnMatchStep
    \/ NnMatchReturn
    \/ MatchesCalculateAtt
    \/ MatchesCalculateVariance

Spec == Init /\ [][Next]_vars

\* nn_match(main, target) on any two frames with the two columns it reads
InitNN ==
    /\ pc = "nn_match"
    /\ data = <<>>
    /\ strike = <<>>
    /\ \E n \in 0..MaxMain : main \in Rows(n, Ids, {0}, Scores, {0})
    /\ \E m \in 0..MaxTarget : target \in Rows(m, Ids, {0}, Scores, {0})
    /\ idx = 1
    /\ targets = <<>>
    /\ att = None
    /\ att_variance = None
    /\ err = ""

NextNN == NnMatchStep \/ NnMatchReturn

SpecNN == InitNN /\ [][NextNN]_vars

\* the estimators on a treated cohort and the controls nn_match gave it
InitEst ==
    /\ pc = "matched"
    /\ data = <<>>
    /\ strike = <<>>
    /\ \E n \in 1..MaxTreat, m \in 1..MaxPool :
          /\ main \in {r \in Rows(n, 1..n, {1}, EstScores, EstOutcomes) :
                          \A k \in 1..n : r[k].strike_id = k}
          /\ target \in {r \in Rows(m, (n + 1)..(n + m), {0}, EstScores, EstOutcomes) :
                          \A k \in 1..m : r[k].strike_id = n + k}
    /\ targets = NnMatch(main, target).rows
    /\ idx = Len(main) + 1
    /\ att = None
    /\ att_variance = None
    /\ err = ""

NextEst == MatchesCalculateAtt \/ MatchesCalculateVariance

SpecEst == InitEst /\ [][NextEst]_vars

(* ------------------------------ properties ---------------------------- *)
\* positions of `pool` whose row may be matched to the query row q
Eligible(q, pool) == {k \in 1..Len(pool) : pool[k].strike_id # q.strike_id}

Dist(q, c) == Abs(c.propensities - q.propensities)

\* eligible positions at the minimum propensity distance from q
Nearest(q, pool) ==
    {k \in Eligible(q, pool) :
        \A j \in Eligible(q, pool) : Dist(q, pool[k]) <= Dist(q, pool[j])}

MinOf(S) == CHOOSE k \in S : \A j \in S : k <= j

IdsOf(rows) == {rows[k].strike_id : k \in 1..Len(rows)}

\* C1: nn_match returns one row per row of main, in main's order, each a row
\* of target that is a nearest eligible candidate of its query; it returns
\* whenever every query has a candidate with a different id.
C1_OneMatchPerQuery ==
    /\ pc = "matched" =>
          /\ Len(targets) = Len(main)
          /\ \A i \in 1..Len(main) :
                \E k \in Nearest(main[i], target) : targets[i] = target[k]
    /\ pc = "panic" => \E i \in 1..Len(main) : Eligible(main[i], target) = {}

C1_Witness ==
    /\ pc = "matched"
    /\ Len(main) = 2
    /\ targets[1] # targets[2]
    /\ IdsOf(main) \cap IdsOf(target) # {}

\* C2: every row find_nn returned has an id different from its query's and is
\* no farther from the query than any candidate with a different id;
\* exclusion is by id, not by propensity value.
C2_NearestByIdExclusion ==
    \A i \in 1..Len(targets) :
        /\ i <= Len(main)
        /\ targets[i].strike_id # main[i].strike_id
        /\ targets[i] \in Range(target)
        /\ \A c \in Range(target) :
              c.strike_id # main[i].strike_id => Dist(main[i], targets[i]) <= Dist(main[i], c)

C2_Witness ==
    \E i \in 1..Len(targets) :
        /\ targets[i].propensities = main[i].propensities
        /\ \E c \in Range(target) :
              c.strike_id = main[i].strike_id /\ c.propensities = main[i].propensities

\* C3: among the eligible candidates at the minimum distance, find_nn returns
\* the one at the earliest position of the candidate pool, so the match
\* sequence is determined by the two input orderings.
C3_FirstOfTies ==
    \A i \in 1..Len(targets) :
        /\ Nearest(main[i], target) # {}
        /\ targets[i] = target[MinOf(Nearest(main[i], target))]

C3_Witness ==
    \E i \in 1..Len(targets) :
        \E k, j \in Nearest(main[i], target) :
            /\ k < j
            /\ target[k] # target[j]
            /\ targets[i] = target[k]

\* C4: no step of nn_match changes the candidate pool, and a row already
\* given to an earlier query is given again to a later query whose only
\* nearest candidate it is.
C4_PoolUnchanged ==
    /\ [][target' = target]_vars
    /\ [](\A i, j \in 1..Len(targets) :
            (/\ i < j
             /\ \A k \in Nearest(main[j], target) : target[k] = targets[i]
             /\ Nearest(main[j], target) # {})
            => targets[j] = targets[i])

C4_Witness ==
    /\ pc = "matched"
    /\ Len(main) = 2
    /\ main[1] # main[2]
    /\ targets[1] = targets[2]
    /\ Len(target) = 2
    /\ target[1] # target[2]

\* C5: for a non-empty treated cohort and as many matched controls,
\* calculate_att returns (sum of treated outcomes - sum of matched outcomes)
\* / n, which is 0 when the outcomes agree position by position.
C5_AttIsMeanDifference ==
    pc \in {"att", "done"} \/ (pc = "panic" /\ err = "calculate_variance") =>
        /\ att.some
        /\ att.den = Len(main)
        /\ att.num = SeqSum(OutcomeColumn(main)) - SeqSum(OutcomeColumn(targets))
        /\ (\A i \in 1..Len(main) : main[i].y = targets[i].y) => att.num = 0

C5_Witness ==
    /\ pc = "att"
    /\ Len(main) >= 2
    /\ att.num < 0
    /\ \E i \in 1..Len(main) : main[i].y > targets[i].y

\* the matched controls, one row per distinct row
DistinctControls == UniqueFirst(targets)

\* K_u: the number of treated rows matched to the control u
ReuseCount(u) == Cardinality({i \in 1..Len(targets) : targets[i].strike_id = u.strike_id})

\* 4 * conditional variance for outcomes a, b: 4 * (a - b)^2 / 2
TwoPointVariance4(a, b) == 2 * (a - b) * (a - b)

\* 4 * w_u^2 * conditional_variance(u), for each nearest neighbour of u in `cohort`
Terms(u, cohort, w) ==
    {w * w * TwoPointVariance4(u.y, cohort[k].y) : k \in Nearest(u, cohort)}

RECURSIVE SumsOf(_)
SumsOf(termSets) ==
    IF Len(termSets) = 0 THEN {0}
    ELSE {a + b : a \in termSets[1], b \in SumsOf(Tail(termSets))}

\* the values of 4 * sum_u w_u^2 * conditional_variance(u)
WeightedSums ==
    SumsOf([k \in 1..Len(main) |-> Terms(main[k], main, 1)]
           \o [k \in 1..Len(DistinctControls) |->
                 Terms(DistinctControls[k], DistinctControls,
                       0 + (1 - 0) * ReuseCount(DistinctControls[k]))])

\* C6: calculate_variance returns sum_u w_u^2 * conditional_variance(u) /
\* n_treated^2 over the treated rows and the distinct matched controls, with
\* w_u = 1 for a treated row and K_u for a control, and the conditional
\* variance taken against a nearest neighbour of u in u's own subsample.
C6_VarianceFormula ==
    pc = "done" =>
        /\ att_variance.some
        /\ \E x \in WeightedSums :
              att_variance.num * (4 * Len(main) * Len(main)) = x * att_variance.den

C6_Witness ==
    /\ pc = "done"
    /\ att_variance.num > 0
    /\ \E k \in 1..Len(DistinctControls) :
          /\ ReuseCount(DistinctControls[k]) >= 2
          /\ 0 \notin Terms(DistinctControls[k], DistinctControls, 1)

\* C7: a returned variance is >= 0; it is 0 when every unit has the outcome
\* of each of its nearest neighbours in its own subsample, and only when
\* every unit has the outcome of one of them.
C7_VarianceNonNegative ==
    pc = "done" =>
        /\ att_variance.den > 0
        /\ att_variance.num >= 0
        /\ (/\ \A k \in 1..Len(main) : Terms(main[k], main, 1) = {0}
            /\ \A k \in 1..Len(DistinctControls) :
                  Terms(DistinctControls[k], DistinctControls, 1) = {0})
           => att_variance.num = 0
        /\ att_variance.num = 0 =>
              /\ \A k \in 1..Len(main) : 0 \in Terms(main[k], main, 1)
              /\ \A k \in 1..Len(DistinctControls) :
                    0 \in Terms(DistinctControls[k], DistinctControls, 1)

C7_Witness ==
    /\ pc = "done"
    /\ att_variance.num = 0
    /\ Len(main) = 3
    /\ \E k \in 1..Len(DistinctControls) : ReuseCount(DistinctControls[k]) = 2
    /\ \E i, j \in 1..Len(main) : main[i].propensities # main[j].propensities

\* every row of `cohort` has a self-match candidate
HasSelfMatch(cohort) ==
    \A k \in 1..Len(cohort) : Eligible(cohort[k], cohort) # {}

\* C8: a query whose candidate pool is empty once its own id is removed
\* aborts the estimation: matching never returns a shorter sequence or skips
\* the query, and a variance is produced only if every row of both
\* self-matching passes had a candidate.
C8_EmptyPoolAborts ==
    /\ pc \in {"matched", "att", "done"} =>
          /\ Len(targets) = Len(main)
          /\ \A i \in 1..Len(main) : Eligible(main[i], target) # {}
    /\ pc = "done" => HasSelfMatch(main) /\ HasSelfMatch(DistinctControls)
    /\ att_variance.some => pc = "done"
    /\ (pc = "panic" /\ err = "calculate_variance") =>
          ~(HasSelfMatch(main) /\ HasSelfMatch(DistinctControls))

C8_Witness ==
    /\ pc = "panic"
    /\ err = "calculate_variance"
    /\ Len(main) = 1
    /\ Len(targets) = 1
    /\ ~att_variance.some

\* C9: estimate_propensities numbers the rows 1..N in input order and
\* treat_control_split puts every id in exactly one cohort, each cohort in
\* input order, so n_treated + n_control = N.
C9_IdsPartitioned ==
    /\ (pc # "start" /\ err # "estimate_logit") =>
          /\ Len(strike) = Len(data)
          /\ \A k \in 1..Len(strike) :
                /\ strike[k].strike_id = k
                /\ strike[k].treat = data[k].treat
                /\ strike[k].y = data[k].y
    /\ (pc \notin {"start", "split"} /\ err # "estimate_logit") =>
          /\ Len(main) + Len(target) = Len(data)
          /\ \A id \in 1..Len(data) :
                Cardinality({k \in 1..Len(main) : main[k].strike_id = id})
                + Cardinality({k \in 1..Len(target) : target[k].strike_id = id}) = 1
          /\ \A k \in 1..Len(main) : main[k] = strike[main[k].strike_id] /\ main[k].treat = 1
          /\ \A k \in 1..Len(target) :
                target[k] = strike[target[k].strike_id] /\ target[k].treat = 0
          /\ \A j, k \in 1..Len(main) : j < k => main[j].strike_id < main[k].strike_id
          /\ \A j, k \in 1..Len(target) : j < k => target[j].strike_id < target[k].strike_id

C9_Witness ==
    /\ pc = "nn_match"
    /\ Len(data) = 4
    /\ IdsOf(main) = {1, 3}
    /\ IdsOf(target) = {2, 4}

\* C10: `matches` returns (att, att_variance) only if there are at least 2
\* treated rows matched to at least 2 distinct control ids; when every
\* treated row got the same control, matching and calculate_att succeed and
\* calculate_variance aborts, whatever the size of the control cohort.
C10_NeedsTwoDistinctControls ==
    /\ pc = "done" =>
          /\ att.some /\ att_variance.some
          /\ Len(main) >= 2
          /\ Cardinality(IdsOf(targets)) >= 2
    /\ (pc \in {"done", "panic", "err"} /\ Len(main) >= 1 /\ Len(targets) = Len(main)
            /\ Cardinality(IdsOf(targets)) = 1) =>
          /\ pc = "panic"
          /\ err = "calculate_variance"
          /\ att.some
          /\ ~att_variance.some

C10_Witness ==
    /\ pc = "panic"
    /\ err = "calculate_variance"
    /\ Len(main) = 2
    /\ Len(target) = 2
    /\ Cardinality(IdsOf(targets)) = 1
    /\ att.some

====
